---- MODULE Spec2Model ----
(***************************************************************************)
(* FinSight dashboard client: the live-data hooks (useSignals, useMarkets, *)
(* useChartData, useWatchlist), the access gate (isLocked) and the beta    *)
(* enrollment flow of the FinSight page component.                         *)
(*                                                                         *)
(* The repository holds two versions of the page component.  The variable  *)
(* variant says which one is mounted: "beta" is the page with the          *)
(* enrollment flow (part_001 lines 1-780), "legacy" the page whose upgrade *)
(* modal sets the plan directly (part_001 lines 782-1286).                 *)
(*                                                                         *)
(* Strings the code takes apart (trim, replace, slice) are sequences of    *)
(* one-character strings; strings it only stores or compares are strings.  *)
(* Tab navigation (activeTab) is not modelled: setActiveTab has no guard   *)
(* and touches nothing else, so every handler is reachable at any time.    *)
(***************************************************************************)
EXTENDS Integers, Sequences, FiniteSets, TLC

VARIABLES
    variant,        \* which page component is mounted: "beta" | "legacy"
    mounted,        \* the page (and with it every hook) is mounted
    now,            \* wall clock read by new Date()
    held,           \* hook -> held result: signals, markets, chartData, watchlist
    loading,        \* hook -> loading flag
    lastFetched,    \* useSignals: null or the time of the last applied refresh
    newId,          \* useSignals: null or the id flagged as newest
    intervals,      \* live setInterval timers: [hook, plan captured by load]
    inflight,       \* hook -> fetchJSON GET requests awaiting a response, oldest first
    sent,           \* number of requests started by timers and by the user so far
    filter,         \* page: active filter tab
    plan,           \* page: active tier
    showUpgrade,    \* page: upgrade modal open
    betaStep,       \* "pick" | "form" | "verify" | "done"
    betaChoice,
    betaName,
    betaEmail,
    betaOtp,
    betaSubmitting,
    betaError,
    betaReqs,       \* beta-signup / beta-verify requests awaiting a response
    tickerInput,
    mutations,      \* watchlist POST / DELETE requests awaiting a response
    lastEvent,      \* history: what the last step was
    feedPlan,       \* history: the tier the held feed was fetched with
    signedEmail,    \* history: the email of the last signup accepted since the modal opened
    source          \* the authoritative source's watchlist, oldest entry first

hookVars == <<held, loading, lastFetched, newId, intervals, inflight>>
betaVars == <<betaStep, betaChoice, betaName, betaEmail, betaOtp, betaSubmitting,
              betaError, betaReqs>>
pageVars == <<filter, plan, showUpgrade, tickerInput>>
histVars == <<feedPlan, signedEmail>>
vars == <<variant, mounted, now, sent, hookVars, betaVars, pageVars, mutations, lastEvent,
          histVars, source>>

(***************************************************************************)
(* Bounds of the model.                                                    *)
(***************************************************************************)
MaxSent == 1        \* requests started by timers and by the user after activation
MaxClock == 1       \* clock readings beyond the one at activation
MaxId == 4          \* signal ids the source serves: 1..MaxId

null == -1             \* useState(null): no time, no id
NoPlan == "-"

SIGNALS == "useSignals"
MARKETS == "useMarkets"
CHART == "useChartData"
WATCHLIST == "useWatchlist"
Hooks == {SIGNALS, MARKETS, CHART, WATCHLIST}
TimedHooks == {SIGNALS, MARKETS, CHART}

Tiers == {"FREE", "PRO", "ELITE"}
PaidTiers == {"PRO", "ELITE"}
FILTER_TABS == {"ALL", "BUY", "SELL", "AVOID", "WATCH"}

(***************************************************************************)
(* Sequence helpers.                                                       *)
(***************************************************************************)
RemoveAt(s, k) == [i \in 1..(Len(s) - 1) |-> IF i < k THEN s[i] ELSE s[i + 1]]

IsInjective(s) == \A i, j \in DOMAIN s : s[i] = s[j] => i = j

\* Array.prototype.indexOf, zero-based, -1 when absent
IndexOf(s, x) ==
    IF \E i \in DOMAIN s : s[i] = x
    THEN (CHOOSE i \in DOMAIN s : s[i] = x /\ \A j \in 1..(i - 1) : s[j] # x) - 1
    ELSE -1

\* Array.prototype.filter
RECURSIVE FilterSeq(_, _)
FilterSeq(s, kind) ==
    IF s = <<>> THEN <<>>
    ELSE IF Head(s).signal = kind
         THEN <<Head(s)>> \o FilterSeq(Tail(s), kind)
         ELSE FilterSeq(Tail(s), kind)

(***************************************************************************)
(* Payloads of the source.  A signal entry is immutable and identified by  *)
(* its id, so its kind is a function of the id.                            *)
(***************************************************************************)
KindOf(i) == CASE i % 4 = 1 -> "BUY"
               [] i % 4 = 2 -> "SELL"
               [] i % 4 = 3 -> "BUY"
               [] OTHER     -> "AVOID"

Entry(i) == [id |-> i, signal |-> KindOf(i)]

FeedOf(ids) == [k \in DOMAIN ids |-> Entry(ids[k])]

\* every feed of at most four distinct entries with ids in 1..MaxId
FeedLengths == 0..4

AllFeeds ==
    {FeedOf(ids) : ids \in {s \in UNION {[1..n -> 1..MaxId] : n \in FeedLengths} : IsInjective(s)}}

\* two feeds that differ and overlap
FewFeeds == {FeedOf(<<1, 2, 3>>), FeedOf(<<4, 2, 3, 1>>)}

EmptyOverview == [indices |-> {}, commodities |-> {}, crypto |-> {}]
Overviews == {[indices |-> {"ASX200"}, commodities |-> {}, crypto |-> {}],
              [indices |-> {"ASX200"}, commodities |-> {"GOLD"}, crypto |-> {"BTC"}]}
Charts == {<<"09:00">>, <<"09:00", "10:00">>}
BHP_AX == <<"B", "H", "P", ".", "A", "X">>
TSLA == <<"T", "S", "L", "A">>
Watchlists == {<<>>, <<BHP_AX>>, <<BHP_AX, TSLA>>}

Payloads(h, feeds) ==
    CASE h = SIGNALS   -> feeds
      [] h = MARKETS   -> Overviews
      [] h = CHART     -> Charts
      [] h = WATCHLIST -> Watchlists

signals == held[SIGNALS]
markets == held[MARKETS]
chartData == held[CHART]
watchlist == held[WATCHLIST]

(***************************************************************************)
(* History record of the last step.                                        *)
(***************************************************************************)
Ev(type, hook, p, stale, overtaken, data) ==
    [type |-> type, hook |-> hook, plan |-> p, stale |-> stale,
     overtaken |-> overtaken, data |-> data]

Event(type) == Ev(type, "-", NoPlan, FALSE, FALSE, <<>>)

(***************************************************************************)
(* Hooks.                                                                  *)
(***************************************************************************)
\* one call of load(): the GET request it sends, with the plan its closure holds
\* read, snap: whether the source has answered it yet, and with which list
NewReq(p) == [plan |-> p, stale |-> FALSE, overtaken |-> FALSE, clear |-> FALSE,
              read |-> FALSE, snap |-> <<>>]

\* the load() that addTicker / removeTicker await after their request succeeded;
\* clear: handleAddTicker goes on to setTickerInput("") once it has settled
Reload(clear, stale) == [plan |-> NoPlan, stale |-> stale, overtaken |-> FALSE, clear |-> clear,
                         read |-> FALSE, snap |-> <<>>]

MarkStale(reqs) == [i \in DOMAIN reqs |-> [reqs[i] EXCEPT !.stale = TRUE]]

\* requests sent before request k are overtaken once k has been applied
MarkOvertaken(reqs, k) ==
    [i \in DOMAIN reqs |-> IF i < k THEN [reqs[i] EXCEPT !.overtaken = TRUE] ELSE reqs[i]]

HookPlan(h, p) == IF h = SIGNALS THEN p ELSE NoPlan

\* useEffect(() => { load(); setInterval(load, pollMs); ... }) of every hook at mount
Init ==
    /\ variant \in {"beta", "legacy"}
    /\ mounted = TRUE
    /\ now = 0
    /\ sent = 0
    /\ held = [h \in Hooks |-> IF h = MARKETS THEN EmptyOverview ELSE <<>>]
    /\ loading = [h \in Hooks |-> TRUE]
    /\ lastFetched = null
    /\ newId = null
    /\ intervals = {[hook |-> h, plan |-> HookPlan(h, "FREE")] : h \in TimedHooks}
    /\ inflight = [h \in Hooks |-> <<NewReq(HookPlan(h, "FREE"))>>]
    /\ filter = "ALL"
    /\ plan = "FREE"
    /\ showUpgrade = FALSE
    /\ betaStep = "pick"
    /\ betaChoice = "PRO"
    /\ betaName = <<>>
    /\ betaEmail = <<>>
    /\ betaOtp = <<>>
    /\ betaSubmitting = FALSE
    /\ betaError = ""
    /\ betaReqs = <<>>
    /\ tickerInput = <<>>
    /\ mutations = <<>>
    /\ lastEvent = Event("mount")
    /\ feedPlan = NoPlan
    /\ signedEmail = <<>>
    /\ source = <<>>

\* the environment's clock
ClockTick ==
    /\ now < MaxClock
    /\ now' = now + 1
    /\ lastEvent' = Event("clock")
    /\ UNCHANGED <<variant, histVars, source, mounted, sent, hookVars, betaVars, pageVars, mutations>>

\* setInterval(load, pollMs) fires: load() sends a request, whatever is in flight
TimerFire(i) ==
    /\ i \in intervals
    /\ sent < MaxSent
    /\ sent' = sent + 1
    /\ inflight' = [inflight EXCEPT ![i.hook] = Append(@, NewReq(i.plan))]
    /\ lastEvent' = Ev("tick", i.hook, i.plan, FALSE, FALSE, <<>>)
    /\ UNCHANGED <<variant, histVars, source, mounted, now, held, loading, lastFetched, newId, intervals,
                   betaVars, pageVars, mutations>>

\* mutant: nothing is flagged while the held sequence is still empty
FirstNewAfterInitial(prev, data) ==
    LET prevIds == {prev[i].id : i \in DOMAIN prev}
        fresh == {i \in DOMAIN data : data[i].id \notin prevIds}
    IN IF fresh = {} \/ prev = <<>> THEN null
       ELSE data[CHOOSE i \in fresh : \A j \in fresh : i <= j].id

\* mutant: the last new entry is picked instead of the first
LastNew(prev, data) ==
    LET prevIds == {prev[i].id : i \in DOMAIN prev}
        fresh == {i \in DOMAIN data : data[i].id \notin prevIds}
    IN IF fresh = {} THEN null
       ELSE data[CHOOSE i \in fresh : \A j \in fresh : i >= j].id

\* data.find(s => !prevIds.has(s.id)): the first entry of data whose id prev lacks
FirstNew(prev, data) ==
    LET prevIds == {prev[i].id : i \in DOMAIN prev}
        fresh == {i \in DOMAIN data : data[i].id \notin prevIds}
    IN IF fresh = {} THEN null
       ELSE data[CHOOSE i \in fresh : \A j \in fresh : i <= j].id

\* if (newest) setNewId(newest.id)
NextNewId(prev, data, old) ==
    IF FirstNew(prev, data) # null THEN FirstNew(prev, data) ELSE old

\* mutant: only a successful attempt clears the flag
LoadingAfterSuccess(old, ok) == IF ok THEN FALSE ELSE old

\* finally { setLoading(false) }: the loading flag once an attempt has settled
LoadingAfter(old, ok) == FALSE

\* mutant: the response is merged into the held result instead of replacing it
AppliedMerged(req, old, data) == old \o data

\* mutant: a sequencing guard drops the response to a request that a later one overtook
AppliedUnlessOvertaken(req, old, data) == IF req.overtaken THEN old ELSE data

\* setSignals(prev => data), setMarkets(data), ...: the result held once the
\* response data to request req has been applied over the result old
Applied(req, old, data) == data

\* the try branch of load(): fetchJSON resolved with data
FetchOk(h, k, data) ==
    /\ mounted
    /\ k \in DOMAIN inflight[h]
    /\ held' = [held EXCEPT ![h] = Applied(inflight[h][k], @, data)]
    /\ IF h = SIGNALS
       THEN /\ newId' = NextNewId(held[h], data, newId)
            /\ lastFetched' = now
            /\ feedPlan' = inflight[h][k].plan
       ELSE UNCHANGED <<newId, lastFetched, feedPlan>>
    /\ loading' = [loading EXCEPT ![h] = LoadingAfter(@, TRUE)]
    /\ inflight' = [inflight EXCEPT ![h] = RemoveAt(MarkOvertaken(@, k), k)]
    /\ tickerInput' = IF inflight[h][k].clear THEN <<>> ELSE tickerInput
    /\ lastEvent' = Ev("fetchOk", h, inflight[h][k].plan, inflight[h][k].stale,
                       inflight[h][k].overtaken, data)
    /\ UNCHANGED <<variant, signedEmail, source, mounted, now, sent, intervals, betaVars, filter, plan,
                   showUpgrade, mutations>>

\* mutant: a failed refresh resets the held result to its initial value
AfterFailureClears(h, old) == IF h = MARKETS THEN EmptyOverview ELSE <<>>

\* what the catch branch of load() does to the held result
AfterFailure(h, old) == old

\* the catch branch of load(): fetchJSON threw (transport error or non-2xx)
FetchFail(h, k) ==
    /\ mounted
    /\ k \in DOMAIN inflight[h]
    /\ held' = [held EXCEPT ![h] = AfterFailure(h, @)]
    /\ loading' = [loading EXCEPT ![h] = LoadingAfter(@, FALSE)]
    /\ inflight' = [inflight EXCEPT ![h] = RemoveAt(@, k)]
    /\ tickerInput' = IF inflight[h][k].clear THEN <<>> ELSE tickerInput
    /\ lastEvent' = Ev("fetchFail", h, inflight[h][k].plan, inflight[h][k].stale,
                       inflight[h][k].overtaken, <<>>)
    /\ UNCHANGED <<variant, histVars, source, mounted, now, sent, lastFetched, newId, intervals,
                   betaVars, filter, plan, showUpgrade, mutations>>

\* mutant: the cleanup leaves the timer running
ClearIntervalLeaks(live, h) == live

\* return () => clearInterval(interval): the cleanup of hook h's effect
ClearInterval(live, h) == {i \in live : i.hook # h}

\* the page is torn down: every effect's cleanup runs
Unmount ==
    /\ mounted
    /\ mounted' = FALSE
    /\ intervals' = ClearInterval(ClearInterval(ClearInterval(intervals, SIGNALS), MARKETS), CHART)
    /\ inflight' = [h \in Hooks |-> MarkStale(inflight[h])]
    /\ lastEvent' = Event("unmount")
    /\ UNCHANGED <<variant, histVars, source, now, sent, held, loading, lastFetched, newId,
                   betaVars, pageVars, mutations>>

\* a response that arrives after the page was torn down: the state setters of
\* an unmounted component change nothing
LateResponse(h, k) ==
    /\ ~mounted
    /\ k \in DOMAIN inflight[h]
    /\ inflight' = [inflight EXCEPT ![h] = RemoveAt(@, k)]
    /\ lastEvent' = Ev("late", h, inflight[h][k].plan, TRUE, inflight[h][k].overtaken, <<>>)
    /\ UNCHANGED <<variant, histVars, source, mounted, now, sent, held, loading, lastFetched, newId,
                   intervals, betaVars, pageVars, mutations>>

\* setPlan(p) and the re-render it causes: load is rebuilt for the new plan
\* (useCallback [plan]), so the effect of useSignals is cleaned up and run again
SetPlan(p) ==
    /\ plan' = p
    /\ IF p # plan
       THEN /\ intervals' = ClearInterval(intervals, SIGNALS) \cup {[hook |-> SIGNALS, plan |-> p]}
            /\ inflight' = [inflight EXCEPT ![SIGNALS] = Append(MarkStale(@), NewReq(p))]
       ELSE UNCHANGED <<intervals, inflight>>

(***************************************************************************)
(* Access gate (both page versions).                                       *)
(***************************************************************************)
\* const filtered = filter === "ALL" ? signals : signals.filter(s => s.signal === filter)
Filtered(sigs, f) == IF f = "ALL" THEN sigs ELSE FilterSeq(sigs, f)

filtered == Filtered(signals, filter)

\* mutant: off by one, the third entry is locked too
IsLockedFromThird(p, sigs, s) == p = "FREE" /\ IndexOf(sigs, s) >= 2

\* mutant: the tier is not looked at
IsLockedAnyTier(p, sigs, s) == IndexOf(sigs, s) >= 3

\* const isLocked = (s) => plan === "FREE" && signals.indexOf(s) >= 3
IsLockedIn(p, sigs, s) == p = "FREE" /\ IndexOf(sigs, s) >= 3

isLocked(s) == IsLockedIn(plan, signals, s)

\* onClick={() => setFilter(f)}
SetFilter(f) ==
    /\ mounted
    /\ f \in FILTER_TABS
    /\ filter' = f
    /\ lastEvent' = Event("filter")
    /\ UNCHANGED <<variant, histVars, source, mounted, now, sent, hookVars, betaVars, plan, showUpgrade,
                   tickerInput, mutations>>

(***************************************************************************)
(* Strings.                                                                *)
(***************************************************************************)
IsSpace(c) == c \in {" ", "\t"}
IsDigit(c) == c \in {"0", "1", "2", "3", "4", "5", "6", "7", "8", "9"}

RECURSIVE TrimStart(_)
TrimStart(s) == IF s # <<>> /\ IsSpace(Head(s)) THEN TrimStart(Tail(s)) ELSE s

RECURSIVE TrimEnd(_)
TrimEnd(s) ==
    IF s # <<>> /\ IsSpace(s[Len(s)]) THEN TrimEnd(SubSeq(s, 1, Len(s) - 1)) ELSE s

\* mutant: the fields are tested as typed
NoTrim(s) == s

\* String.prototype.trim
Trim(s) == TrimEnd(TrimStart(s))

\* s.replace(/\D/g, "")
RECURSIVE StripNonDigits(_)
StripNonDigits(s) ==
    IF s = <<>> THEN <<>>
    ELSE IF IsDigit(Head(s)) THEN <<Head(s)>> \o StripNonDigits(Tail(s))
         ELSE StripNonDigits(Tail(s))

\* mutant: the code is not cut to its length
NoSlice(s, n) == s

\* s.slice(0, n)
Slice0(s, n) == SubSeq(s, 1, IF Len(s) < n THEN Len(s) ELSE n)

OTP_LEN == 6

(***************************************************************************)
(* Upgrade modal and enrollment flow.                                      *)
(***************************************************************************)
MSG_DETAILS == "Please enter your name and email."
MSG_GENERIC == "Something went wrong. Please try again."
MSG_CODE == "Please enter the verification code."
MSG_INVALID == "Invalid code. Please try again."

MaxBetaSent == 2    \* enrollment requests the user starts

\* old: the modal has been reopened since the request was sent
BetaReq(kind, name, email, p, code) ==
    [kind |-> kind, name |-> name, email |-> email, plan |-> p, code |-> code, old |-> FALSE]

MarkOld(reqs) == [i \in DOMAIN reqs |-> [reqs[i] EXCEPT !.old = TRUE]]

\* beta page: openUpgrade(); legacy page: setShowUpgrade(true).  Every element
\* that opens the modal is rendered or enabled only while plan === "FREE".
OpenUpgrade ==
    /\ mounted
    /\ plan = "FREE"
    /\ showUpgrade' = TRUE
    /\ IF variant = "beta"
       THEN /\ betaStep' = "pick"
            /\ betaName' = <<>>
            /\ betaEmail' = <<>>
            /\ betaOtp' = <<>>
            /\ betaError' = ""
       ELSE UNCHANGED <<betaStep, betaName, betaEmail, betaOtp, betaError>>
    /\ betaReqs' = MarkOld(betaReqs)
    /\ signedEmail' = <<>>
    /\ lastEvent' = Event("open")
    /\ UNCHANGED <<variant, feedPlan, source, mounted, now, sent, hookVars, betaChoice,
                   betaSubmitting, filter, plan, tickerInput, mutations>>

\* the modal's close button and the "Start Exploring" button: setShowUpgrade(false)
CloseUpgrade ==
    /\ mounted
    /\ showUpgrade
    /\ showUpgrade' = FALSE
    /\ lastEvent' = Event("close")
    /\ UNCHANGED <<variant, histVars, source, mounted, now, sent, hookVars, betaVars, filter, plan,
                   tickerInput, mutations>>

\* beta page, step "pick": setBetaChoice(p.plan); setBetaStep("form")
PickPlan(p) ==
    /\ mounted
    /\ variant = "beta"
    /\ showUpgrade
    /\ betaStep = "pick"
    /\ p \in PaidTiers
    /\ betaChoice' = p
    /\ betaStep' = "form"
    /\ lastEvent' = Ev("pick", "-", p, FALSE, FALSE, <<>>)
    /\ UNCHANGED <<variant, histVars, source, mounted, now, sent, hookVars, betaName, betaEmail, betaOtp,
                   betaSubmitting, betaError, betaReqs, pageVars, mutations>>

\* legacy page, plan card: setPlan(p.plan); setShowUpgrade(false)
BuyPlan(p) ==
    /\ mounted
    /\ variant = "legacy"
    /\ showUpgrade
    /\ p \in PaidTiers
    /\ SetPlan(p)
    /\ showUpgrade' = FALSE
    /\ lastEvent' = Ev("buy", "-", p, FALSE, FALSE, <<>>)
    /\ UNCHANGED <<variant, histVars, source, mounted, now, sent, held, loading, lastFetched, newId,
                   betaVars, filter, tickerInput, mutations>>

\* onChange={e => setBetaName(e.target.value)}
SetBetaName(v) ==
    /\ mounted
    /\ variant = "beta"
    /\ showUpgrade
    /\ betaStep = "form"
    /\ betaName' = v
    /\ lastEvent' = Event("typeName")
    /\ UNCHANGED <<variant, histVars, source, mounted, now, sent, hookVars, betaStep, betaChoice, betaEmail,
                   betaOtp, betaSubmitting, betaError, betaReqs, pageVars, mutations>>

\* onChange={e => setBetaEmail(e.target.value)}
SetBetaEmail(v) ==
    /\ mounted
    /\ variant = "beta"
    /\ showUpgrade
    /\ betaStep = "form"
    /\ betaEmail' = v
    /\ lastEvent' = Event("typeEmail")
    /\ UNCHANGED <<variant, histVars, source, mounted, now, sent, hookVars, betaStep, betaChoice, betaName,
                   betaOtp, betaSubmitting, betaError, betaReqs, pageVars, mutations>>

\* handleBetaSubmit, from the button (disabled while betaSubmitting) or from
\* the Enter key in the email input (onKeyDown, never disabled)
HandleBetaSubmit(via) ==
    /\ mounted
    /\ variant = "beta"
    /\ showUpgrade
    /\ betaStep = "form"
    /\ via \in {"button", "enter"}
    /\ via = "button" => ~betaSubmitting
    /\ IF Trim(betaName) = <<>> \/ Trim(betaEmail) = <<>>
       THEN /\ betaError' = MSG_DETAILS
            /\ lastEvent' = Event("submitInvalid")
            /\ UNCHANGED <<sent, betaSubmitting, betaReqs>>
       ELSE /\ sent < MaxBetaSent
            /\ sent' = sent + 1
            /\ betaError' = ""
            /\ betaSubmitting' = TRUE
            /\ betaReqs' = Append(betaReqs,
                   BetaReq("signup", Trim(betaName), Trim(betaEmail), betaChoice, <<>>))
            /\ lastEvent' = Event("signupSent")
    /\ UNCHANGED <<variant, histVars, source, mounted, now, hookVars, betaStep, betaChoice, betaName,
                   betaEmail, betaOtp, pageVars, mutations>>

\* mutant: the code typed earlier survives a new signup
OtpKept(old) == old

\* setBetaOtp(""): the code field after a successful signup
OtpAfterSignup(old) == <<>>

\* beta-signup answered 2xx: setBetaOtp(""); setBetaStep("verify"); finally.
\* The event keeps the code the field held when the response arrived.
SignupOk(k) ==
    /\ mounted
    /\ k \in DOMAIN betaReqs
    /\ betaReqs[k].kind = "signup"
    /\ betaOtp' = OtpAfterSignup(betaOtp)
    /\ betaStep' = "verify"
    /\ betaSubmitting' = FALSE
    /\ betaReqs' = RemoveAt(betaReqs, k)
    /\ lastEvent' = Ev("signupOk", "-", NoPlan, betaReqs[k].old, FALSE, betaOtp)
    /\ signedEmail' = IF betaReqs[k].old THEN signedEmail ELSE betaReqs[k].email
    /\ UNCHANGED <<variant, feedPlan, source, mounted, now, sent, hookVars, betaChoice, betaName, betaEmail,
                   betaError, pageVars, mutations>>

\* mutant: the detail is shown even when the body has none
DetailOnly(detail, fallback) == detail

\* err.detail || fallback
DetailOr(detail, fallback) == IF detail = "" THEN fallback ELSE detail

\* beta-signup answered non-2xx with a JSON body: setBetaError(err.detail || ...)
SignupRejected(k, detail) ==
    /\ mounted
    /\ k \in DOMAIN betaReqs
    /\ betaReqs[k].kind = "signup"
    /\ betaError' = DetailOr(detail, MSG_GENERIC)
    /\ betaSubmitting' = FALSE
    /\ betaReqs' = RemoveAt(betaReqs, k)
    /\ lastEvent' = Ev("signupRejected", "-", NoPlan, betaReqs[k].old, FALSE, <<>>)
    /\ UNCHANGED <<variant, histVars, source, mounted, now, sent, hookVars, betaStep, betaChoice, betaName,
                   betaEmail, betaOtp, pageVars, mutations>>

\* fetch or res.json() threw: the catch branch of either handler
BetaThrows(k) ==
    /\ mounted
    /\ k \in DOMAIN betaReqs
    /\ betaError' = MSG_GENERIC
    /\ betaSubmitting' = FALSE
    /\ betaReqs' = RemoveAt(betaReqs, k)
    /\ lastEvent' = Ev("betaThrows", betaReqs[k].kind, NoPlan, betaReqs[k].old, FALSE, <<>>)
    /\ UNCHANGED <<variant, histVars, source, mounted, now, sent, hookVars, betaStep, betaChoice, betaName,
                   betaEmail, betaOtp, pageVars, mutations>>

\* step "form", Back button: setBetaStep("pick")
BackToPick ==
    /\ mounted
    /\ variant = "beta"
    /\ showUpgrade
    /\ betaStep = "form"
    /\ betaStep' = "pick"
    /\ lastEvent' = Event("back")
    /\ UNCHANGED <<variant, histVars, source, mounted, now, sent, hookVars, betaChoice, betaName, betaEmail,
                   betaOtp, betaSubmitting, betaError, betaReqs, pageVars, mutations>>

\* onChange={e => setBetaOtp(e.target.value.replace(/\D/g, "").slice(0, 6))}
SetBetaOtp(raw) ==
    /\ mounted
    /\ variant = "beta"
    /\ showUpgrade
    /\ betaStep = "verify"
    /\ betaOtp' = Slice0(StripNonDigits(raw), OTP_LEN)
    /\ lastEvent' = Event("typeOtp")
    /\ UNCHANGED <<variant, histVars, source, mounted, now, sent, hookVars, betaStep, betaChoice, betaName,
                   betaEmail, betaSubmitting, betaError, betaReqs, pageVars, mutations>>

\* handleBetaVerify, from the button (disabled while betaSubmitting or
\* betaOtp.length < 6) or from the Enter key in the code input
HandleBetaVerify(via) ==
    /\ mounted
    /\ variant = "beta"
    /\ showUpgrade
    /\ betaStep = "verify"
    /\ via \in {"button", "enter"}
    /\ via = "button" => (~betaSubmitting /\ ~(Len(betaOtp) < OTP_LEN))
    /\ IF Trim(betaOtp) = <<>>
       THEN /\ betaError' = MSG_CODE
            /\ lastEvent' = Event("verifyInvalid")
            /\ UNCHANGED <<sent, betaSubmitting, betaReqs>>
       ELSE /\ sent < MaxBetaSent
            /\ sent' = sent + 1
            /\ betaError' = ""
            /\ betaSubmitting' = TRUE
            /\ betaReqs' = Append(betaReqs,
                   BetaReq("verify", <<>>, Trim(betaEmail), NoPlan, Trim(betaOtp)))
            /\ lastEvent' = Event("verifySent")
    /\ UNCHANGED <<variant, histVars, source, mounted, now, hookVars, betaStep, betaChoice, betaName,
                   betaEmail, betaOtp, pageVars, mutations>>

\* mutant: the tier chosen in the modal is activated instead of the served one
ActivatedChoice(chosen, served) == chosen

\* the tier a successful verify activates: data.plan
ActivatedPlan(chosen, served) == served

\* beta-verify answered 2xx with {plan}: setPlan(data.plan); setBetaStep("done"); finally
VerifyOk(k, served) ==
    /\ mounted
    /\ k \in DOMAIN betaReqs
    /\ betaReqs[k].kind = "verify"
    /\ served \in Tiers
    /\ SetPlan(ActivatedPlan(betaChoice, served))
    /\ betaStep' = "done"
    /\ betaSubmitting' = FALSE
    /\ betaReqs' = RemoveAt(betaReqs, k)
    /\ lastEvent' = Ev("verifyOk", "-", served, betaReqs[k].old, FALSE, <<>>)
    /\ UNCHANGED <<variant, histVars, source, mounted, now, sent, held, loading, lastFetched, newId,
                   betaChoice, betaName, betaEmail, betaOtp, betaError, filter,
                   showUpgrade, tickerInput, mutations>>

\* beta-verify answered non-2xx with a JSON body: setBetaError(err.detail || ...)
VerifyRejected(k, detail) ==
    /\ mounted
    /\ k \in DOMAIN betaReqs
    /\ betaReqs[k].kind = "verify"
    /\ betaError' = DetailOr(detail, MSG_INVALID)
    /\ betaSubmitting' = FALSE
    /\ betaReqs' = RemoveAt(betaReqs, k)
    /\ lastEvent' = Ev("verifyRejected", "-", NoPlan, betaReqs[k].old, FALSE, <<>>)
    /\ UNCHANGED <<variant, histVars, source, mounted, now, sent, hookVars, betaStep, betaChoice, betaName,
                   betaEmail, betaOtp, pageVars, mutations>>

\* step "verify", Resend code button: setBetaStep("form"); setBetaError("")
ResendCode ==
    /\ mounted
    /\ variant = "beta"
    /\ showUpgrade
    /\ betaStep = "verify"
    /\ betaStep' = "form"
    /\ betaError' = ""
    /\ lastEvent' = Event("resend")
    /\ UNCHANGED <<variant, histVars, source, mounted, now, sent, hookVars, betaChoice, betaName, betaEmail,
                   betaOtp, betaSubmitting, betaReqs, pageVars, mutations>>

\* a beta-signup or beta-verify response that arrives after the page was torn down
LateBetaResponse(k) ==
    /\ ~mounted
    /\ k \in DOMAIN betaReqs
    /\ betaReqs' = RemoveAt(betaReqs, k)
    /\ lastEvent' = Ev("late", betaReqs[k].kind, NoPlan, TRUE, FALSE, <<>>)
    /\ UNCHANGED <<variant, histVars, source, mounted, now, sent, hookVars, betaStep, betaChoice, betaName,
                   betaEmail, betaOtp, betaSubmitting, betaError, pageVars, mutations>>

(***************************************************************************)
(* Watchlist store.                                                        *)
(***************************************************************************)
LOWER == <<"a", "b", "h", "l", "p", "s", "t", "x">>
UPPER == <<"A", "B", "H", "L", "P", "S", "T", "X">>

ToUpperChar(c) ==
    IF \E i \in DOMAIN LOWER : LOWER[i] = c
    THEN UPPER[CHOOSE i \in DOMAIN LOWER : LOWER[i] = c]
    ELSE c

\* mutant: the ticker is sent in the case it was typed in
KeepCase(s) == s

\* String.prototype.toUpperCase
ToUpperCase(s) == [i \in DOMAIN s |-> ToUpperChar(s[i])]

\* const t = tickerInput.trim().toUpperCase()
NormalizeTicker(s) == ToUpperCase(Trim(s))

\* done: the source has carried the request out
Mutation(op, ticker, name) == [op |-> op, ticker |-> ticker, name |-> name, done |-> FALSE]

MaxMutations == 2    \* add and remove requests the user starts

\* onChange={e => setTickerInput(e.target.value)}
SetTickerInput(v) ==
    /\ mounted
    /\ tickerInput' = v
    /\ lastEvent' = Event("typeTicker")
    /\ UNCHANGED <<variant, histVars, source, mounted, now, sent, hookVars, betaVars, filter, plan,
                   showUpgrade, mutations>>

\* handleAddTicker up to its await: if (!t) return (the handler ends normally,
\* nothing is thrown or shown); otherwise addTicker(t, t) sends the POST
HandleAddTicker ==
    /\ mounted
    /\ IF NormalizeTicker(tickerInput) = <<>>
       THEN /\ lastEvent' = Event("addIgnored")
            /\ UNCHANGED <<sent, mutations>>
       ELSE /\ sent < MaxMutations
            /\ sent' = sent + 1
            /\ mutations' = Append(mutations,
                   Mutation("POST", NormalizeTicker(tickerInput), NormalizeTicker(tickerInput)))
            /\ lastEvent' = Event("addSent")
    /\ UNCHANGED <<variant, histVars, source, mounted, now, hookVars, betaVars, pageVars>>

\* onClick={() => removeTicker(w.ticker)} on an item of the held watchlist
RemoveTicker(i) ==
    /\ mounted
    /\ i \in DOMAIN watchlist
    /\ sent < MaxMutations
    /\ sent' = sent + 1
    /\ mutations' = Append(mutations, Mutation("DELETE", watchlist[i], <<>>))
    /\ lastEvent' = Event("removeSent")
    /\ UNCHANGED <<variant, histVars, source, mounted, now, hookVars, betaVars, pageVars>>

\* mutant: a successful mutation is not followed by a reload
AfterMutationNone(reqs, op, stale) == reqs

\* await load() after the POST or DELETE resolved: one GET /api/watchlist
AfterMutation(reqs, op, stale) == Append(reqs, Reload(op = "POST", stale))

\* the POST or DELETE succeeded: await load()
MutationOk(k) ==
    /\ mounted
    /\ k \in DOMAIN mutations
    /\ mutations' = RemoveAt(mutations, k)
    /\ inflight' = [inflight EXCEPT ![WATCHLIST] = AfterMutation(@, mutations[k].op, FALSE)]
    /\ lastEvent' = Ev("mutationOk", mutations[k].op, NoPlan, FALSE, FALSE, <<>>)
    /\ UNCHANGED <<variant, histVars, source, mounted, now, sent, held, loading, lastFetched, newId,
                   intervals, betaVars, pageVars>>

\* the POST or DELETE threw: console.error; handleAddTicker then clears the input
MutationFail(k) ==
    /\ mounted
    /\ k \in DOMAIN mutations
    /\ mutations' = RemoveAt(mutations, k)
    /\ tickerInput' = IF mutations[k].op = "POST" THEN <<>> ELSE tickerInput
    /\ lastEvent' = Ev("mutationFail", mutations[k].op, NoPlan, FALSE, FALSE, <<>>)
    /\ UNCHANGED <<variant, histVars, source, mounted, now, sent, hookVars, betaVars, filter, plan,
                   showUpgrade>>

\* a POST or DELETE response that arrives after the page was torn down: the
\* await load() of a successful one still sends its request
LateMutation(k, ok) ==
    /\ ~mounted
    /\ k \in DOMAIN mutations
    /\ ok \in BOOLEAN
    /\ mutations' = RemoveAt(mutations, k)
    /\ inflight' = IF ok
                   THEN [inflight EXCEPT ![WATCHLIST] = AfterMutation(@, mutations[k].op, TRUE)]
                   ELSE inflight
    /\ lastEvent' = Ev("late", mutations[k].op, NoPlan, TRUE, FALSE, <<>>)
    /\ UNCHANGED <<variant, histVars, source, mounted, now, sent, held, loading, lastFetched, newId,
                   intervals, betaVars, pageVars>>

(***************************************************************************)
(* The authoritative source behind /api/watchlist.                         *)
(***************************************************************************)
\* POST creates an entry keyed by its ticker, DELETE removes the entry of a ticker
SourceAfter(list, m) ==
    IF m.op = "POST"
    THEN IF IndexOf(list, m.ticker) >= 0 THEN list ELSE Append(list, m.ticker)
    ELSE LET keep == {i \in DOMAIN list : list[i] # m.ticker}
         IN [j \in 1..Cardinality(keep) |->
                list[CHOOSE i \in keep : Cardinality({l \in keep : l <= i}) = j]]

\* the source carries out a POST or DELETE it has received
ServerApplies(k) ==
    /\ k \in DOMAIN mutations
    /\ ~mutations[k].done
    /\ source' = SourceAfter(source, mutations[k])
    /\ mutations' = [mutations EXCEPT ![k].done = TRUE]
    /\ lastEvent' = Ev("applied", mutations[k].op, NoPlan, FALSE, FALSE, <<>>)
    /\ UNCHANGED <<variant, histVars, mounted, now, sent, hookVars, betaVars, pageVars>>

\* the source answers a GET /api/watchlist with the list it holds at that moment
ServerReads(k) ==
    /\ k \in DOMAIN inflight[WATCHLIST]
    /\ ~inflight[WATCHLIST][k].read
    /\ inflight' = [inflight EXCEPT ![WATCHLIST][k] = [@ EXCEPT !.read = TRUE, !.snap = source]]
    /\ lastEvent' = Ev("read", WATCHLIST, NoPlan, FALSE, FALSE, source)
    /\ UNCHANGED <<variant, histVars, source, mounted, now, sent, held, loading, lastFetched,
                   newId, intervals, betaVars, pageVars, mutations>>

(***************************************************************************)
(* Inputs of the environment.                                              *)
(***************************************************************************)
\* what the user types; the empty string is what every field starts from
Names == {<<" ">>, <<"A", "l">>}
Emails == {<<" ">>, <<"a", "@", "b">>, <<"a", "b">>}
Codes == {<<"1", "2">>, <<"1", "a", "2", "3", "4", "5", "6", "7">>}
Details == {"", "Email already registered"}
TickerInputs == {<<>>, <<" ">>, <<"b", "h", "p", ".", "a", "x">>, <<" ", "t", "s", "l", "a">>}

(***************************************************************************)
(* Specifications.                                                         *)
(***************************************************************************)
\* the four hooks polling and settling, with the watchlist mutations
NextPoll ==
    \/ ClockTick
    \/ \E i \in intervals : TimerFire(i)
    \/ \E h \in Hooks : \E k \in DOMAIN inflight[h] :
         \E data \in Payloads(h, FewFeeds) : FetchOk(h, k, data)
    \/ \E h \in Hooks : \E k \in DOMAIN inflight[h] : FetchFail(h, k)
    \/ \E i \in DOMAIN watchlist : sent < MaxSent /\ RemoveTicker(i)
    \/ \E k \in DOMAIN mutations : MutationOk(k)
    \/ \E k \in DOMAIN mutations : MutationFail(k)
    \/ Unmount
    \/ \E h \in Hooks : \E k \in DOMAIN inflight[h] : LateResponse(h, k)
    \/ \E k \in DOMAIN mutations : \E ok \in BOOLEAN : LateMutation(k, ok)

SpecPoll == Init /\ [][NextPoll]_vars

\* the signal feed alone, served every feed over the ids 1..MaxId
NextFeed ==
    \/ \E i \in intervals : i.hook = SIGNALS /\ TimerFire(i)
    \/ \E k \in DOMAIN inflight[SIGNALS] : \E data \in AllFeeds : FetchOk(SIGNALS, k, data)
    \/ \E k \in DOMAIN inflight[SIGNALS] : FetchFail(SIGNALS, k)

SpecFeed == Init /\ [][NextFeed]_vars

\* one user enrolling with well-formed details through the buttons
OneName == <<"A", "l">>
OneEmail == <<"a", "@", "b">>
OneCode == <<"1", "2", "3", "4", "5", "6">>

NextEnrolOnce ==
    \/ OpenUpgrade
    \/ CloseUpgrade
    \/ \E p \in PaidTiers : PickPlan(p)
    \/ \E p \in PaidTiers : BuyPlan(p)
    \/ SetBetaName(OneName)
    \/ SetBetaEmail(OneEmail)
    \/ HandleBetaSubmit("button")
    \/ \E k \in DOMAIN betaReqs : SignupOk(k)
    \/ SetBetaOtp(OneCode)
    \/ HandleBetaVerify("button")
    \/ \E k \in DOMAIN betaReqs : \E served \in Tiers : VerifyOk(k, served)

\* the access gate over every feed; the tier changes on the legacy page
NextGate ==
    \/ \E f \in FILTER_TABS : SetFilter(f)
    \/ \E k \in DOMAIN inflight[SIGNALS] : \E data \in AllFeeds : FetchOk(SIGNALS, k, data)
    \/ OpenUpgrade
    \/ CloseUpgrade
    \/ \E p \in PaidTiers : BuyPlan(p)

SpecGate == Init /\ [][NextGate]_vars

\* the signal feed polling and the gate while the tier changes on either page
NextTier ==
    \/ \E f \in FILTER_TABS : SetFilter(f)
    \/ \E i \in intervals : TimerFire(i)
    \/ \E k \in DOMAIN inflight[SIGNALS] : \E data \in FewFeeds : FetchOk(SIGNALS, k, data)
    \/ \E k \in DOMAIN inflight[SIGNALS] : FetchFail(SIGNALS, k)
    \/ NextEnrolOnce
    \/ Unmount
    \/ \E k \in DOMAIN inflight[SIGNALS] : LateResponse(SIGNALS, k)
    \/ \E k \in DOMAIN betaReqs : LateBetaResponse(k)

SpecTier == Init /\ [][NextTier]_vars

\* the upgrade modal and the enrollment flow under every input
NextFlow ==
    \/ OpenUpgrade
    \/ CloseUpgrade
    \/ \E p \in PaidTiers : PickPlan(p)
    \/ \E p \in PaidTiers : BuyPlan(p)
    \/ \E v \in Names : SetBetaName(v)
    \/ \E v \in Emails : SetBetaEmail(v)
    \/ \E via \in {"button", "enter"} : HandleBetaSubmit(via)
    \/ \E k \in DOMAIN betaReqs : SignupOk(k)
    \/ \E k \in DOMAIN betaReqs : \E d \in Details : SignupRejected(k, d)
    \/ \E k \in DOMAIN betaReqs : BetaThrows(k)
    \/ BackToPick
    \/ \E raw \in Codes : SetBetaOtp(raw)
    \/ \E via \in {"button", "enter"} : HandleBetaVerify(via)
    \/ \E k \in DOMAIN betaReqs : \E served \in Tiers : VerifyOk(k, served)
    \/ \E k \in DOMAIN betaReqs : \E d \in Details : VerifyRejected(k, d)
    \/ ResendCode

SpecFlow == Init /\ [][NextFlow]_vars

\* the watchlist store and the ticker input
NextWatch ==
    \/ \E v \in TickerInputs : SetTickerInput(v)
    \/ HandleAddTicker
    \/ \E i \in DOMAIN watchlist : RemoveTicker(i)
    \/ \E k \in DOMAIN mutations : MutationOk(k)
    \/ \E k \in DOMAIN mutations : MutationFail(k)
    \/ \E k \in DOMAIN inflight[WATCHLIST] :
         \E data \in Watchlists : FetchOk(WATCHLIST, k, data)
    \/ \E k \in DOMAIN inflight[WATCHLIST] : FetchFail(WATCHLIST, k)
    \/ Unmount
    \/ \E k \in DOMAIN inflight[WATCHLIST] : LateResponse(WATCHLIST, k)
    \/ \E k \in DOMAIN mutations : \E ok \in BOOLEAN : LateMutation(k, ok)

SpecWatch == Init /\ [][NextWatch]_vars

\* the watchlist store against its source, every request answered successfully;
\* the user acts once the first load has settled
NextSource ==
    \/ \E v \in TickerInputs : ~loading[WATCHLIST] /\ SetTickerInput(v)
    \/ ~loading[WATCHLIST] /\ HandleAddTicker
    \/ \E i \in DOMAIN watchlist : RemoveTicker(i)
    \/ \E k \in DOMAIN mutations : ServerApplies(k)
    \/ \E k \in DOMAIN mutations : mutations[k].done /\ MutationOk(k)
    \/ \E k \in DOMAIN inflight[WATCHLIST] : ServerReads(k)
    \/ \E k \in DOMAIN inflight[WATCHLIST] :
         inflight[WATCHLIST][k].read /\ FetchOk(WATCHLIST, k, inflight[WATCHLIST][k].snap)

SpecSource == Init /\ [][NextSource]_vars

\* the whole client; the specifications above are its parts
Next == NextPoll \/ NextFlow \/ NextTier \/ NextGate \/ NextFeed \/ NextWatch \/ NextSource

Spec == Init /\ [][Next]_vars

(***************************************************************************)
(* Claims.                                                                 *)
(***************************************************************************)
HookApplied == lastEvent.type = "fetchOk"

\* C1: a fetch attempt that fails leaves the held result of every hook, and
\* lastFetched and newId of the signal feed, exactly as they were.
C1_FailedAttemptKeepsResult ==
    [][lastEvent'.type = "fetchFail"
         => (held' = held /\ lastFetched' = lastFetched /\ newId' = newId)]_vars

\* a refresh of the signal feed has just failed over a result held from an earlier one
C1_Witness ==
    /\ lastEvent.type = "fetchFail"
    /\ lastEvent.hook = SIGNALS
    /\ signals # <<>>
    /\ lastFetched # null
    /\ newId # null

C3_NoTickAfterStop ==
    lastEvent.type = "tick"
        => (mounted /\ lastEvent.plan = HookPlan(lastEvent.hook, plan))

\* the feed's timer fires after a change of plan stopped the earlier timer,
\* while a request of the stopped poller is still awaited
C3_Witness ==
    /\ lastEvent.type = "tick"
    /\ lastEvent.hook = SIGNALS
    /\ plan # "FREE"
    /\ \E k \in DOMAIN inflight[SIGNALS] : inflight[SIGNALS][k].stale

\* C4: every successful response is applied, also the response to a request
\* that a later request overtook: the held result is the payload of the
\* attempt that settled last.
C4_LastSettledWins ==
    HookApplied => held[lastEvent.hook] = lastEvent.data

\* two overlapping attempts both succeeded, the one sent first settling last
C4_Witness ==
    /\ HookApplied
    /\ lastEvent.overtaken
    /\ inflight[lastEvent.hook] = <<>>
    /\ held[lastEvent.hook] = lastEvent.data

\* C5: after a successful refresh of the feed, the flagged id is the first id
\* of the new sequence, in its order, that the sequence held before lacks.
C5_FirstNewIdFlagged ==
    [][(lastEvent'.type = "fetchOk" /\ lastEvent'.hook = SIGNALS)
         => \A i \in DOMAIN signals' :
              (/\ \A m \in DOMAIN signals : signals[m].id # signals'[i].id
               /\ \A j \in 1..(i - 1) :
                    \E m \in DOMAIN signals : signals[m].id = signals'[j].id)
                 => newId' = signals'[i].id]_vars

\* the second refresh has brought <<4, 2, 3, 1>> and 4 is flagged
C5_Witness ==
    /\ lastEvent.type = "fetchOk"
    /\ lastEvent.hook = SIGNALS
    /\ sent = 1
    /\ inflight[SIGNALS] = <<>>
    /\ signals = FeedOf(<<4, 2, 3, 1>>)
    /\ newId = 4

\* C6 (as claimed): after a successful refresh that brings no id the sequence
\* held before lacks, no id is flagged.
C6_NothingFlaggedWithoutNewId ==
    [][(/\ lastEvent'.type = "fetchOk"
        /\ lastEvent'.hook = SIGNALS
        /\ \A i \in DOMAIN signals' :
             \E m \in DOMAIN signals : signals[m].id = signals'[i].id)
         => newId' = null]_vars

\* zero-based position of entry s in the full feed, -1 when absent
FeedPosition(s) ==
    IF \E i \in DOMAIN signals : signals[i] = s
    THEN (CHOOSE i \in DOMAIN signals : signals[i] = s) - 1
    ELSE -1

\* C7 (as claimed): an entry of the filtered view is obscured iff the tier is
\* FREE and its zero-based position in the filtered view is at least 3.
C7_LockedByFilteredPosition ==
    \A pos \in DOMAIN filtered :
        isLocked(filtered[pos]) <=> (plan = "FREE" /\ pos - 1 >= 3)

\* C7 (amended): an entry of the filtered view is obscured iff the tier is
\* FREE and its zero-based position in the full feed is at least 3.
C7_LockedByFeedPosition ==
    \A pos \in DOMAIN filtered :
        isLocked(filtered[pos]) <=> (plan = "FREE" /\ FeedPosition(filtered[pos]) >= 3)

\* under a filter, an entry among the first three of the view is obscured
C7_Witness ==
    /\ plan = "FREE"
    /\ filter # "ALL"
    /\ \E pos \in DOMAIN filtered : pos - 1 < 3 /\ isLocked(filtered[pos])

\* C8: for PRO and ELITE no entry of the view is obscured, whatever the
\* filter; for FREE and the unfiltered view the entries at positions 0, 1, 2
\* are visible and every later one is obscured.
C8_GateByTier ==
    /\ plan \in PaidTiers => \A pos \in DOMAIN filtered : ~isLocked(filtered[pos])
    /\ (plan = "FREE" /\ filter = "ALL")
         => \A pos \in DOMAIN filtered : isLocked(filtered[pos]) <=> pos - 1 >= 3

\* a paid tier activated through the enrollment flow, over a view of four entries
C8_Witness ==
    /\ variant = "beta"
    /\ plan \in PaidTiers
    /\ Len(filtered) > 3

\* C9: a successful verify sets the active tier to the plan the response
\* carries and the step to "done".
C9_VerifyActivatesServedPlan ==
    lastEvent.type = "verifyOk" => (plan = lastEvent.plan /\ betaStep = "done")

\* the served plan differs from the tier chosen in the modal
C9_Witness ==
    /\ lastEvent.type = "verifyOk"
    /\ lastEvent.plan # betaChoice
    /\ plan = lastEvent.plan

\* C10 (as claimed): the active tier changes only in a step that applies a
\* successful verify response.
C10_TierChangesOnlyOnVerify ==
    [][plan' # plan => lastEvent'.type = "verifyOk"]_vars

\* the steps in which a signup or verify request ends in failure
FailureEvents == {"signupRejected", "verifyRejected", "betaThrows"}

\* the steps in which the user submits a request
SubmitEvents == {"signupSent", "verifySent"}

\* C11: a failed signup or verify request leaves the step where it was, sets
\* an error message (the detail of the response, or a fallback), clears
\* submitting, leaves the active tier alone and sends nothing; a request is
\* only ever sent by the user submitting.
C11_FailureKeepsStepAndSetsError ==
    [][/\ lastEvent'.type \in FailureEvents =>
            /\ betaStep' = betaStep
            /\ betaError' \in {MSG_GENERIC, MSG_INVALID} \cup (Details \ {""})
            /\ ~betaSubmitting'
            /\ plan' = plan
            /\ sent' = sent
            /\ Len(betaReqs') = Len(betaReqs) - 1
       /\ Len(betaReqs') > Len(betaReqs) => lastEvent'.type \in SubmitEvents]_vars

\* a signup was rejected with a body that carries no detail
C11_Witness ==
    /\ lastEvent.type = "signupRejected"
    /\ betaStep = "form"
    /\ betaError = MSG_GENERIC
    /\ ~betaSubmitting
    /\ plan = "FREE"
    /\ betaReqs = <<>>

IsBlank(s) == \A i \in DOMAIN s : s[i] \in {" ", "\t"}

\* C12: submitting the details with a name or an email that is empty or made
\* of whitespace sends no signup request, stays at step "form" and sets the
\* validation message.
C12_BlankDetailsSendNothing ==
    [][(lastEvent'.type \in {"submitInvalid", "signupSent"}
          /\ (IsBlank(betaName) \/ IsBlank(betaEmail))) =>
            /\ lastEvent'.type = "submitInvalid"
            /\ betaReqs' = betaReqs
            /\ sent' = sent
            /\ betaStep' = "form"
            /\ betaError' = MSG_DETAILS]_vars

\* a name was typed, the email is a single space
C12_Witness ==
    /\ lastEvent.type = "submitInvalid"
    /\ betaName = <<"A", "l">>
    /\ betaEmail = <<" ">>
    /\ betaError = MSG_DETAILS
    /\ betaStep = "form"
    /\ betaReqs = <<>>

\* an address with something before and after an "@"
IsPlausibleEmail(e) == \E i \in DOMAIN e : e[i] = "@" /\ 1 < i /\ i < Len(e)

\* C13 (as claimed): a signup request is sent only when the name is not empty
\* and the email is syntactically plausible.
C13_SignupOnlyWithPlausibleEmail ==
    [][lastEvent'.type = "signupSent" =>
            (~IsBlank(betaName) /\ IsPlausibleEmail(betaEmail))]_vars

\* C14: a successful signup ends at step "verify" with the code field empty,
\* whatever code the field held before.
C14_SignupOkClearsCode ==
    [][lastEvent'.type = "signupOk" => (betaStep' = "verify" /\ betaOtp' = <<>>)]_vars

\* a code had been typed in an earlier visit of step "verify"
C14_Witness ==
    /\ lastEvent.type = "signupOk"
    /\ lastEvent.data # <<>>
    /\ betaStep = "verify"
    /\ betaOtp = <<>>

\* C15 (as claimed): after any change of the enrollment step the error field
\* is empty.
C15_StepChangeClearsError ==
    [][betaStep' # betaStep => betaError' = ""]_vars

\* C16 (as claimed): opening or closing the modal restores step "pick" and
\* clears the chosen tier, name, email, code, submitting and error.
C16_ResetClearsSession ==
    [][(variant = "beta" /\ lastEvent'.type \in {"open", "close"}) =>
            /\ betaStep' = "pick"
            /\ betaChoice' = "PRO"
            /\ betaName' = <<>>
            /\ betaEmail' = <<>>
            /\ betaOtp' = <<>>
            /\ ~betaSubmitting'
            /\ betaError' = ""]_vars

\* C17: the held watchlist changes only in a step that applies a successful
\* load, and is then exactly that load's payload; sending an add or a remove,
\* a failed or pending mutation and a failed load leave it as it was.
C17_WatchlistIsLastLoadedPayload ==
    [][/\ watchlist' # watchlist =>
            /\ lastEvent'.type = "fetchOk"
            /\ lastEvent'.hook = WATCHLIST
       /\ (lastEvent'.type = "fetchOk" /\ lastEvent'.hook = WATCHLIST) =>
            watchlist' = lastEvent'.data
       /\ lastEvent'.type \in {"fetchFail", "mutationFail", "mutationOk", "addSent",
                               "removeSent", "addIgnored", "late"} =>
            watchlist' = watchlist]_vars

\* a load replaced the held list while a second mutation was still pending
C17_Witness ==
    /\ lastEvent.type = "fetchOk"
    /\ lastEvent.hook = WATCHLIST
    /\ watchlist = <<BHP_AX>>
    /\ sent >= 2
    /\ mutations # <<>>

\* C18: a successful add or remove is followed by exactly one reload and a
\* failed one by none; a reload is sent for no other reason, and neither
\* sending a mutation nor its response changes the held watchlist.
C18_OneReloadPerSuccessfulMutation ==
    [][/\ lastEvent'.type = "mutationOk" =>
            /\ Len(inflight'[WATCHLIST]) = Len(inflight[WATCHLIST]) + 1
            /\ Len(mutations') = Len(mutations) - 1
            /\ watchlist' = watchlist
       /\ lastEvent'.type = "mutationFail" =>
            /\ inflight' = inflight
            /\ Len(mutations') = Len(mutations) - 1
            /\ watchlist' = watchlist
       /\ Len(inflight'[WATCHLIST]) > Len(inflight[WATCHLIST]) =>
            /\ Len(mutations') = Len(mutations) - 1
            /\ Len(inflight'[WATCHLIST]) = Len(inflight[WATCHLIST]) + 1
       /\ Len(mutations') > Len(mutations) =>
            /\ inflight' = inflight
            /\ watchlist' = watchlist]_vars

\* the reload of a successful add is in flight and nothing is held yet
C18_Witness ==
    /\ lastEvent.type = "mutationOk"
    /\ lastEvent.hook = "POST"
    /\ \E k \in DOMAIN inflight[WATCHLIST] : inflight[WATCHLIST][k].clear
    /\ watchlist = <<>>

\* the ways a call of handleAddTicker can end at its first step
AddEvents == {"addIgnored", "addSent", "addRejected"}

\* C19 (as claimed): an add whose ticker is empty after normalization ends in
\* a validation failure, sends no create request and no reload and leaves
\* the held watchlist as it was.
C19_EmptyAddFailsValidation ==
    [][(lastEvent'.type \in AddEvents /\ IsBlank(tickerInput)) =>
            /\ lastEvent'.type = "addRejected"
            /\ mutations' = mutations
            /\ inflight' = inflight
            /\ watchlist' = watchlist]_vars

C20_Typed == <<"b", "h", "p", ".", "a", "x">>
C20_Ticker == <<"B", "H", "P", ".", "A", "X">>
C20_Name == <<"B", "H", "P">>

\* C20 (as claimed): adding "bhp.ax" sends a create request for ticker
\* "BHP.AX" with name "BHP".
C20_CreateCarriesGivenName ==
    [][(lastEvent'.type = "addSent" /\ tickerInput = C20_Typed) =>
            mutations'[Len(mutations')] = Mutation("POST", C20_Ticker, C20_Name)]_vars

\* t is raw without its surrounding whitespace, letter by letter in upper case
IsNormalOf(t, raw) ==
    /\ t # <<>>
    /\ \E a \in 0..Len(raw) :
         /\ a + Len(t) <= Len(raw)
         /\ \A i \in 1..Len(raw) : (i <= a \/ i > a + Len(t)) => raw[i] \in {" ", "\t"}
         /\ raw[a + 1] \notin {" ", "\t"}
         /\ raw[a + Len(t)] \notin {" ", "\t"}
         /\ \A i \in 1..Len(t) :
              /\ t[i] = ToUpperChar(raw[a + i])
              /\ \A j \in DOMAIN LOWER : t[i] # LOWER[j]

\* C20 (amended): every create request carries, as ticker and as name, the
\* typed text without its surrounding whitespace and in upper case; typing
\* "bhp.ax" sends ticker "BHP.AX" with name "BHP.AX".
C20_CreateCarriesNormalizedTicker ==
    [][lastEvent'.type = "addSent" =>
            LET m == mutations'[Len(mutations')]
            IN /\ Len(mutations') = Len(mutations) + 1
               /\ m.op = "POST"
               /\ m.name = m.ticker
               /\ IsNormalOf(m.ticker, tickerInput)
               /\ tickerInput = C20_Typed => m.ticker = C20_Ticker]_vars

\* a ticker typed in lower case after a space is on its way in upper case
C20_Witness ==
    /\ lastEvent.type = "addSent"
    /\ tickerInput = <<" ", "t", "s", "l", "a">>
    /\ mutations # <<>>
    /\ mutations[Len(mutations)] = Mutation("POST", <<"T", "S", "L", "A">>, <<"T", "S", "L", "A">>)

\* what the watchlist hook and the page can show besides the list and the input
WatchStatus == <<loading[WATCHLIST], betaError>>

\* C21 (as claimed): a failed add or remove leaves the held watchlist as it
\* was and puts an error where the view can show it.
C21_FailedMutationSurfacesError ==
    [][lastEvent'.type = "mutationFail" =>
            (watchlist' = watchlist /\ WatchStatus' # WatchStatus)]_vars

SettleEvents == {"fetchOk", "fetchFail"}

\* C22: every loading flag is true at activation, is cleared by the step in
\* which an attempt of its hook settles, with either outcome, changes in no
\* other step and is never set again.
C22_LoadingClearedOnceSettled ==
    [][\A h \in Hooks :
          /\ lastEvent.type = "mount" => loading[h]
          /\ (lastEvent'.type \in SettleEvents /\ lastEvent'.hook = h) => ~loading'[h]
          /\ ~loading[h] => ~loading'[h]
          /\ loading'[h] # loading[h] =>
                (lastEvent'.type \in SettleEvents /\ lastEvent'.hook = h)]_vars

\* a later attempt is in flight and the flag is still cleared, the first
\* attempt having failed
C22_Witness ==
    /\ lastEvent.type = "tick"
    /\ lastEvent.hook = MARKETS
    /\ ~loading[MARKETS]
    /\ markets = EmptyOverview
    /\ loading[SIGNALS]

\* C23 (as claimed): once the held feed is a result fetched with the tier the
\* user changed to, it stays one while that tier is active.
C23_NewTierFeedNotReplaced ==
    [][(variant = "beta" /\ plan # "FREE" /\ feedPlan = plan /\ plan' = plan) =>
            feedPlan' = plan]_vars

\* C24 (as claimed): after mutations that overlapped, once every request has
\* settled successfully the held watchlist is the source's list.
C24_SettledWatchlistMatchesSource ==
    (sent >= 2 /\ mutations = <<>> /\ inflight[WATCHLIST] = <<>>) => watchlist = source

ResponseEvents == {"signupOk", "signupRejected", "verifyOk", "verifyRejected", "betaThrows"}

\* C25 (as claimed): the response to a request sent before the flow was reset
\* changes neither the step nor the error nor a captured field.
C25_OldResponseLeavesNewSession ==
    [][(lastEvent'.type \in ResponseEvents /\ lastEvent'.stale) =>
            UNCHANGED <<betaStep, betaError, betaChoice, betaName, betaEmail, betaOtp>>]_vars

\* C26 (as claimed): at most one signup or verify request is in flight.
C26_OneEnrollmentRequestInFlight ==
    Len(betaReqs) <= 1

\* C27 (as claimed): a verify request carries the email of the most recent
\* successful signup of the run, the run starting when the modal is opened.
C27_VerifyCarriesSignedEmail ==
    [][(lastEvent'.type = "verifySent" /\ signedEmail # <<>>) =>
            betaReqs'[Len(betaReqs')].email = signedEmail]_vars

IsCode(s) == \A i \in DOMAIN s : s[i] \in {"0", "1", "2", "3", "4", "5", "6", "7", "8", "9"}

\* C28 (as claimed): a verify request is sent only when the code has exactly
\* six digits.
C28_VerifyOnlyWithSixDigits ==
    [][lastEvent'.type = "verifySent" => (Len(betaOtp) = 6 /\ IsCode(betaOtp))]_vars

\* C29: the captured code consists of digits only and is at most six long.
C29_CodeIsAtMostSixDigits ==
    Len(betaOtp) <= 6 /\ IsCode(betaOtp)

\* eight characters were typed, one of them a letter
C29_Witness ==
    /\ lastEvent.type = "typeOtp"
    /\ betaOtp = <<"1", "2", "3", "4", "5", "6">>

\* C30: the first successful feed load flags the first entry of its result,
\* and flags nothing when the result is empty.
C30_FirstLoadFlagsFirstEntry ==
    [][(lastEvent'.type = "fetchOk" /\ lastEvent'.hook = SIGNALS /\ lastFetched = null) =>
            /\ signals = <<>>
            /\ signals' = lastEvent'.data
            /\ newId' = IF signals' = <<>> THEN null ELSE signals'[1].id]_vars

\* the first attempt succeeded with more than one entry
C30_Witness ==
    /\ lastEvent.type = "fetchOk"
    /\ sent = 0
    /\ Len(signals) >= 2
    /\ newId = signals[1].id
    /\ inflight[SIGNALS] = <<>>

====
